---- MODULE Spec2Model ----
(***************************************************************************)
(* Model of the Webservice construct of cdk_metaflow                       *)
(* (awscdk-metaflow/cdk_metaflow/webservice/webservice.py).                *)
(*                                                                         *)
(* One behaviour is one call of Webservice.__init__ on one argument list.  *)
(* The arguments are drawn in Init; every top-level statement of __init__  *)
(* is one action, and the two expansion loops (target groups, listeners)   *)
(* take one step per construct they create.  The CDK construct tree is the *)
(* set of (scope, id) pairs; creating a construct under a (scope, id) that *)
(* is already taken raises, as the constructs library does.                *)
(***************************************************************************)
EXTENDS Integers, Sequences, FiniteSets

VARIABLES
    args,                            \* the arguments of Webservice.__init__
    pc,                              \* the statement of __init__ to run next (or the one that raised)
    error,                           \* "none", or the exception that ended the call
    tree,                            \* CDK construct tree: set of [scope, id]
    health_check_port,               \* the local health_check_port (rebound at line 215)
    vpc,                             \* the local vpc
    self_load_balancer,              \* self.load_balancer
    self_ecs_cluster,                \* self.ecs_cluster
    vpc_of,                          \* the vpc= argument the load balancer and the cluster were constructed with
    task_definition,                 \* the FargateTaskDefinition with its container
    target_groups,                   \* ApplicationTargetGroups, in creation order
    container_port_to_target_group,  \* dict container port -> index into target_groups
    idx,                             \* position of the running expansion loop
    service,                         \* the FargateService
    scaling,                         \* the scalable target and its policies
    listeners,                       \* ApplicationListeners, in creation order
    rules,                           \* ApplicationListenerRules, in creation order
    listener_port_to_listener,       \* dict listener port -> index into listeners
    outputs,                         \* ids of the CfnOutputs
    previous,                        \* the graph of an earlier, completed call on the same arguments
    replicas,                        \* running task count of the deployed service
    metaflow_args,                   \* the arguments of Metaflow.__init__
    metaflow_pc,                     \* the statement of Metaflow.__init__ to run next
    metaflow_error,                  \* "none", or the exception that ended Metaflow.__init__
    metaflow_tree,                   \* ids of the constructs created in the Metaflow construct
    metaflow_listeners,              \* listeners on the load balancer of Metaflow.__init__: [service, port]
    ui_backend_service,              \* the call of UIBackendService.__init__: its arguments and self.url
    protect_error                    \* "none", or the exception that ended a call of protect_ui_endpoint_with_auth0

\* the state of one call of Webservice.__init__
webservice_vars ==
    <<args, pc, error, tree, health_check_port, vpc, self_load_balancer,
      self_ecs_cluster, vpc_of, task_definition, target_groups,
      container_port_to_target_group, idx, service, scaling, listeners,
      rules, listener_port_to_listener, outputs>>

\* the state of one call of Metaflow.__init__
metaflow_vars == <<metaflow_args, metaflow_pc, metaflow_error, metaflow_tree,
                   metaflow_listeners, ui_backend_service>>

\* what a call of Webservice.__init__ cannot touch
caller_vars == <<previous, replicas, protect_error, metaflow_vars>>

vars == <<webservice_vars, caller_vars>>

-----------------------------------------------------------------------------
(* Bounds and input domains *)

MaxMappings == 2

ListenerPorts == {80, 8080}
ContainerPorts == {3000, 4000}
PathPatterns == {"*", "/api/*"}
HealthCheckPaths == {"/healthcheck"}

\* Python's None for an Optional[int]
None == -1

HealthCheckPorts == {None, 0} \cup ContainerPorts

-----------------------------------------------------------------------------
(* Python helpers *)

\* truth value of an Optional[int]: None and 0 are falsy
Truthy(x) == x # None /\ x # 0

\* str(n) for n >= 0: the decimal digits, most significant first
RECURSIVE str(_)
str(n) == IF n < 10 THEN <<n>> ELSE str(n \div 10) \o <<n % 10>>

\* int(s) for a digit sequence
RECURSIVE int(_)
int(s) == IF Len(s) = 0 THEN 0
          ELSE 10 * int(SubSeq(s, 1, Len(s) - 1)) + s[Len(s)]

\* an insertion-ordered dict is a sequence of [key, value] entries with unique keys
EmptyDict == <<>>

DictKeys(d) == {d[i].key : i \in DOMAIN d}

DictGet(d, k) == d[CHOOSE i \in DOMAIN d : d[i].key = k].value

DictSet(d, k, v) ==
    IF k \in DictKeys(d)
    THEN [i \in DOMAIN d |-> IF d[i].key = k THEN [key |-> k, value |-> v] ELSE d[i]]
    ELSE Append(d, [key |-> k, value |-> v])

DictValues(d) == [i \in DOMAIN d |-> d[i].value]

\* {**d, **e}: the items of d, then the items of e, a later value replacing an
\* earlier one under the same key
RECURSIVE DictMerge(_, _)
DictMerge(d, e) ==
    IF e = <<>>
    THEN d
    ELSE DictMerge(DictSet(d, e[1].key, e[1].value), Tail(e))

\* collections.Counter(xs)[x]
Count(xs, x) == Cardinality({i \in DOMAIN xs : xs[i] = x})

-----------------------------------------------------------------------------
(* PortMapping *)

PortMapping == [listener_port : ListenerPorts,
                container_port : ContainerPorts,
                path_pattern : PathPatterns]

list_listener_ports(port_mappings) ==
    [i \in DOMAIN port_mappings |-> port_mappings[i].listener_port]

list_container_ports(port_mappings) ==
    [i \in DOMAIN port_mappings |-> port_mappings[i].container_port]

do_port_mappings_conflict_never(port_mappings) == FALSE

do_port_mappings_conflict_more_than_twice(port_mappings) ==
    LET listener_ports == list_listener_ports(port_mappings)
    IN \E p \in {listener_ports[i] : i \in DOMAIN listener_ports} :
           Count(listener_ports, p) > 2

do_port_mappings_conflict_on_container_port(port_mappings) ==
    LET container_ports == list_container_ports(port_mappings)
    IN \E p \in {container_ports[i] : i \in DOMAIN container_ports} :
           Count(container_ports, p) > 1

do_port_mappings_conflict(port_mappings) ==
    LET listener_ports == list_listener_ports(port_mappings)
    IN \E p \in {listener_ports[i] : i \in DOMAIN listener_ports} :
           Count(listener_ports, p) > 1

-----------------------------------------------------------------------------
(* Webservice.__init__, lines 201-218: validation *)

\* `if not health_check_port` (line 209)
health_check_port_is_none(port) == port = None

health_check_port_unset(port) == ~Truthy(port)

\* `assert len(ports) == 1` (line 211)
default_inferable_nonempty(ports) == Len(ports) >= 1

default_inferable(ports) == Len(ports) = 1

\* `ports[0].container_port` (line 215)
inferred_from_listener_port(ports) == ports[1].listener_port

inferred_health_check_port(ports) == ports[1].container_port

ValidationErrors ==
    {"docker_image and docker_build_context cannot both be set",
     "docker_image and docker_build_args cannot both be set",
     "docker_image and dockerfile_path cannot both be set",
     "vpc_id and ecs_cluster_in_vpc cannot both be set",
     "health_check_port is unset; a default value could not be inferred",
     "Conflicting port mappings appear in load_balancer_to_container_port_mappings"}

\* the message of the first assertion of lines 201-218 that fails, or "none"
validation_error_without_docker_build_args(a) ==
    IF a.docker_image /\ a.docker_build_context
    THEN "docker_image and docker_build_context cannot both be set"
    ELSE IF a.docker_image /\ a.relative_dockerfile_path
    THEN "docker_image and dockerfile_path cannot both be set"
    ELSE IF a.vpc_id /\ a.ecs_cluster_in_vpc
    THEN "vpc_id and ecs_cluster_in_vpc cannot both be set"
    ELSE IF health_check_port_unset(a.health_check_port)
            /\ ~default_inferable(a.load_balancer_to_container_port_mappings)
    THEN "health_check_port is unset; a default value could not be inferred"
    ELSE IF do_port_mappings_conflict(a.load_balancer_to_container_port_mappings)
    THEN "Conflicting port mappings appear in load_balancer_to_container_port_mappings"
    ELSE "none"

validation_error(a) ==
    IF a.docker_image /\ a.docker_build_context
    THEN "docker_image and docker_build_context cannot both be set"
    ELSE IF a.docker_image /\ a.docker_build_args
    THEN "docker_image and docker_build_args cannot both be set"
    ELSE IF a.docker_image /\ a.relative_dockerfile_path
    THEN "docker_image and dockerfile_path cannot both be set"
    ELSE IF a.vpc_id /\ a.ecs_cluster_in_vpc
    THEN "vpc_id and ecs_cluster_in_vpc cannot both be set"
    ELSE IF health_check_port_unset(a.health_check_port)
            /\ ~default_inferable(a.load_balancer_to_container_port_mappings)
    THEN "health_check_port is unset; a default value could not be inferred"
    ELSE IF do_port_mappings_conflict(a.load_balancer_to_container_port_mappings)
    THEN "Conflicting port mappings appear in load_balancer_to_container_port_mappings"
    ELSE "none"

-----------------------------------------------------------------------------
(* The construct tree *)

Node(scope, id) == [scope |-> scope, id |-> id]

DuplicateId == "There is already a Construct with this name"

Terminated == error # "none" \/ pc = "done"

Running(label) == pc = label /\ error = "none"

-----------------------------------------------------------------------------
(* The call of Webservice.__init__ *)

MappingLists == UNION {[1..n -> PortMapping] : n \in 0..MaxMappings}

\* the argument lists of Webservice.__init__.  The Optional object, path, str
\* and dict arguments are modelled by their truth value, which is all that
\* __init__ reads of them; the sizing arguments keep their defaults.
Arguments ==
    [load_balancer_to_container_port_mappings : MappingLists,
     health_check_path : HealthCheckPaths,
     health_check_port : HealthCheckPorts,
     ecs_desired_num_instances : {1},
     min_tasks : {1},
     max_tasks : {1},
     scale_in_cooldown_seconds : {None},
     scale_out_cooldown_seconds : {None},
     target_memory_utilization_percent : {50},
     target_cpu_utilization_percent : {50},
     docker_image : BOOLEAN,
     docker_build_context : BOOLEAN,
     docker_build_args : BOOLEAN,
     relative_dockerfile_path : BOOLEAN,
     vpc_id : BOOLEAN,
     ecs_cluster_in_vpc : BOOLEAN,
     load_balancer : BOOLEAN,
     container_env_vars_overrides : {EmptyDict}]

\* neither the load balancer nor the cluster has been constructed
NoVpcOf == [load_balancer |-> "none", ecs_cluster |-> "none"]

NoTaskDefinition == [created |-> FALSE, image |-> "none", port_mappings |-> <<>>,
                     environment |-> EmptyDict]

NoService == [created |-> FALSE, cluster |-> "none", desired_count |-> 0,
              target_groups |-> <<>>]

NoScaling == [created |-> FALSE, min_capacity |-> 0, max_capacity |-> 0, policies |-> {}]

\* no earlier call, nothing deployed
NoPrevious == [completed |-> FALSE, target_groups |-> {}, listeners |-> {},
               n_target_groups |-> 0, n_listeners |-> 0]

\* UIBackendService.__init__ has not been called
NoUIBackendService ==
    [called |-> FALSE, returned |-> FALSE, load_balancer_listener_port |-> 0,
     container_port |-> 0, url_path_prefix |-> "", url |-> <<>>]

\* Metaflow.__init__ is not running
MetaflowIdle ==
    /\ metaflow_args = [vpc |-> FALSE, vpc_cidr |-> FALSE,
                        artifacts_bucket_name |-> FALSE,
                        enable_ui |-> FALSE, enable_sagemaker |-> FALSE]
    /\ metaflow_pc = "idle"
    /\ metaflow_error = "none"
    /\ metaflow_tree = {}
    /\ metaflow_listeners = {}
    /\ ui_backend_service = NoUIBackendService

\* the entry of Webservice.__init__ on the argument list a, in a fresh scope
WebserviceStart(a) ==
    /\ args = a
    /\ pc = "super"
    /\ error = "none"
    /\ tree = {}
    /\ health_check_port = a.health_check_port
    /\ vpc = "none"
    /\ self_load_balancer = "none"
    /\ self_ecs_cluster = "none"
    /\ vpc_of = NoVpcOf
    /\ task_definition = NoTaskDefinition
    /\ target_groups = <<>>
    /\ container_port_to_target_group = EmptyDict
    /\ idx = 1
    /\ service = NoService
    /\ scaling = NoScaling
    /\ listeners = <<>>
    /\ rules = <<>>
    /\ listener_port_to_listener = EmptyDict
    /\ outputs = {}

Init ==
    /\ \E a \in Arguments : WebserviceStart(a)
    /\ previous = NoPrevious
    /\ replicas = None
    /\ protect_error = "none"
    /\ MetaflowIdle

\* what the statements before the routing stage leave alone
routing_vars == <<target_groups, container_port_to_target_group, idx, service,
                  scaling, listeners, rules, listener_port_to_listener, outputs>>

\* lines 197-199: super().__init__(scope, construct_id)
Super ==
    /\ Running("super")
    /\ tree' = tree \cup {Node("scope", "{id}")}
    /\ pc' = "validate"
    /\ UNCHANGED <<caller_vars, args, error, health_check_port, vpc, self_load_balancer,
                   self_ecs_cluster, task_definition, vpc_of, routing_vars>>

\* lines 201-218: the assertions, and the default of health_check_port
Validate ==
    /\ Running("validate")
    /\ LET e == validation_error(args)
           ports == args.load_balancer_to_container_port_mappings
       IN IF e # "none"
          THEN /\ error' = e
               /\ UNCHANGED <<pc, health_check_port>>
          ELSE /\ pc' = "log_group"
               /\ health_check_port' =
                      IF health_check_port_unset(health_check_port)
                      THEN inferred_health_check_port(ports)
                      ELSE health_check_port
               /\ UNCHANGED error
    /\ UNCHANGED <<caller_vars, args, tree, vpc, self_load_balancer, self_ecs_cluster,
                   task_definition, vpc_of, routing_vars>>

\* line 220: logs.LogGroup(self, id="LogGroup")
LogGroup ==
    /\ Running("log_group")
    /\ tree' = tree \cup {Node("self", "LogGroup")}
    /\ pc' = "vpc"
    /\ UNCHANGED <<caller_vars, args, error, health_check_port, vpc, self_load_balancer,
                   self_ecs_cluster, task_definition, vpc_of, routing_vars>>

\* lines 543-552: vpc = vpc_id and Vpc.from_lookup(...); vpc = vpc or ec2.Vpc(...),
\* where from_lookup has returned a VPC
create_or_lookup_vpc_always_new(vpc_id) == "new"

create_or_lookup_vpc(vpc_id) == IF vpc_id THEN "from_lookup" ELSE "new"

\* line 221 and create_or_lookup_vpc (lines 536-554).  Vpc.from_lookup asks the
\* environment for the VPC and may fail to resolve it.
ResolveVpc ==
    /\ Running("vpc")
    /\ IF args.ecs_cluster_in_vpc
       THEN /\ vpc' = "ecs_cluster_in_vpc.vpc"
            /\ pc' = "load_balancer"
            /\ UNCHANGED <<tree, error>>
       ELSE IF args.vpc_id
       THEN \E resolved \in BOOLEAN :
               IF resolved
               THEN /\ vpc' = create_or_lookup_vpc(args.vpc_id)
                    /\ tree' = tree \cup {Node("self", "{id}Vpc")}
                    /\ pc' = "load_balancer"
                    /\ UNCHANGED error
               ELSE /\ error' = "vpc lookup failed"
                    /\ UNCHANGED <<vpc, tree, pc>>
       ELSE /\ vpc' = create_or_lookup_vpc(args.vpc_id)
            /\ tree' = tree \cup {Node("self", "{id}Vpc")}
            /\ pc' = "load_balancer"
            /\ UNCHANGED error
    /\ UNCHANGED <<caller_vars, args, health_check_port, self_load_balancer,
                   self_ecs_cluster, task_definition, vpc_of, routing_vars>>

\* lines 222-227: self.load_balancer = load_balancer or ApplicationLoadBalancer(...)
load_balancer_always_new(supplied) == "new"

load_balancer_or_new(supplied) == IF supplied THEN "supplied" ELSE "new"

LoadBalancer ==
    /\ Running("load_balancer")
    /\ self_load_balancer' = load_balancer_or_new(args.load_balancer)
    /\ tree' = IF self_load_balancer' = "new"
               THEN tree \cup {Node("self", "{id}ALB")}
               ELSE tree
    /\ vpc_of' = IF self_load_balancer' = "new"
                 THEN [vpc_of EXCEPT !.load_balancer = vpc]
                 ELSE vpc_of
    /\ pc' = "cluster"
    /\ UNCHANGED <<caller_vars, args, error, health_check_port, vpc, self_ecs_cluster,
                   task_definition, routing_vars>>

\* line 229: self.ecs_cluster = ecs_cluster_in_vpc or ecs.Cluster(...)
Cluster ==
    /\ Running("cluster")
    /\ IF args.ecs_cluster_in_vpc
       THEN /\ self_ecs_cluster' = "supplied"
            /\ UNCHANGED <<tree, vpc_of>>
       ELSE /\ self_ecs_cluster' = "new"
            /\ tree' = tree \cup {Node("self", "{id}-Cluster")}
            /\ vpc_of' = [vpc_of EXCEPT !.ecs_cluster = vpc]
    /\ pc' = "task_definition"
    /\ UNCHANGED <<caller_vars, args, error, health_check_port, vpc, self_load_balancer,
                   task_definition, routing_vars>>

\* lines 231-244: make_webservice_task_definition (lines 301-347), which calls
\* make_task_definition (399-430) and _configure_ecs_task_execution_role
\* (375-396).  Without docker_image the image is built from docker_build_context:
\* from_asset rejects a missing directory at line 315, and the asset is bound
\* to the file system by add_container at line 419, which may not find it.
from_asset_directory_defaulted(a) == TRUE

\* line 316: directory=docker_build_context and str(docker_build_context),
\* by its truth value
from_asset_directory(a) == a.docker_build_context

\* lines 424-426: environment={**container_env_vars_overrides} makes a new
\* dict of the operand's items, in their order, and leaves the operand as it is
dict_unpacking_emptied(overrides) ==
    [result |-> DictMerge(EmptyDict, overrides), operand |-> EmptyDict]

dict_unpacking_under_defaults(overrides) ==
    [result |-> DictMerge(overrides, <<[key |-> "LOGLEVEL", value |-> "INFO"]>>),
     operand |-> overrides]

dict_unpacking(overrides) ==
    [result |-> DictMerge(EmptyDict, overrides), operand |-> overrides]

TaskDefinition ==
    /\ Running("task_definition")
    /\ LET container_ports ==
               list_container_ports(args.load_balancer_to_container_port_mappings)
           unpacked == dict_unpacking(args.container_env_vars_overrides)
           built == [created |-> TRUE,
                     image |-> IF args.docker_image THEN "docker_image" ELSE "from_asset",
                     port_mappings |-> container_ports,
                     environment |-> unpacked.result]
       IN IF ~args.docker_image /\ ~from_asset_directory(args)
          THEN /\ error' = "from_asset: directory is required"
               /\ UNCHANGED <<args, tree, task_definition, pc>>
          ELSE /\ args' = [args EXCEPT !.container_env_vars_overrides = unpacked.operand]
               /\ \E found \in BOOLEAN :
                  IF ~args.docker_image /\ ~found
                  THEN /\ error' = "from_asset: cannot find image directory"
                       /\ tree' = tree \cup {Node("self", "{id}TaskDefinition")}
                       /\ UNCHANGED <<task_definition, pc>>
                  ELSE /\ found
                       /\ task_definition' = built
                       /\ tree' = tree \cup
                              {Node("self", "{id}TaskDefinition"),
                               Node("self", "{id}-fargate-execution-role-ecr-policy"),
                               Node("self", "{id}-fargate-execution-role-ecs-policy")}
                       /\ pc' = "target_groups"
                       /\ UNCHANGED error
    /\ UNCHANGED <<caller_vars, health_check_port, vpc, self_load_balancer,
                   self_ecs_cluster, vpc_of, routing_vars>>

-----------------------------------------------------------------------------
(* Routing: target groups (lines 246-255, 433-477) *)

\* lines 462-469: ApplicationTargetGroup(scope, f"{id_prefix}TargetGroup", ...)
ApplicationTargetGroup(in_vpc, port) ==
    [port |-> port, vpc |-> in_vpc, protocol |-> "HTTP", target_type |-> "IP",
     health_check_port |-> <<>>, health_check_path |-> "", health_check_protocol |-> ""]

\* lines 471-475: target_group.configure_health_check(port=str(...), path=...)
configure_health_check_skipped(target_group, port, path) == target_group

configure_health_check_first_call_only(target_group, port, path) ==
    IF previous.completed
    THEN target_group
    ELSE [target_group EXCEPT !.health_check_port = str(port),
                              !.health_check_path = path,
                              !.health_check_protocol = "HTTP"]

configure_health_check(target_group, port, path) ==
    [target_group EXCEPT !.health_check_port = str(port),
                         !.health_check_path = path,
                         !.health_check_protocol = "HTTP"]

health_check_configured(target_group) ==
    /\ target_group.health_check_port # <<>>
    /\ target_group.health_check_path # ""

\* what the target-group loop leaves alone
construction_vars == <<caller_vars, args, health_check_port, vpc,
                       self_load_balancer, self_ecs_cluster, vpc_of, task_definition>>

\* make_target_group, lines 462-469, for the idx-th element of container_ports.
\* The construct is created in `scope`, the parent of the Webservice, under the
\* same id for every port.
TargetGroupNew ==
    /\ Running("target_groups")
    /\ LET container_ports ==
               list_container_ports(args.load_balancer_to_container_port_mappings)
       IN /\ idx <= Len(container_ports)
          /\ IF Node("scope", "{id}TargetGroup") \in tree
             THEN /\ error' = DuplicateId
                  /\ UNCHANGED <<tree, target_groups, pc>>
             ELSE /\ tree' = tree \cup {Node("scope", "{id}TargetGroup")}
                  /\ target_groups' =
                         Append(target_groups, ApplicationTargetGroup(vpc, container_ports[idx]))
                  /\ pc' = "target_group_health_check"
                  /\ UNCHANGED error
    /\ UNCHANGED <<construction_vars, container_port_to_target_group, idx, service,
                   scaling, listeners, rules, listener_port_to_listener, outputs>>

\* make_target_group, lines 471-477, and the dict entry of line 442
TargetGroupHealthCheck ==
    /\ Running("target_group_health_check")
    /\ LET n == Len(target_groups)
       IN /\ target_groups' =
                 [target_groups EXCEPT ![n] =
                     configure_health_check(@, health_check_port, args.health_check_path)]
          /\ container_port_to_target_group' =
                 DictSet(container_port_to_target_group, target_groups[n].port, n)
    /\ idx' = idx + 1
    /\ pc' = "target_groups"
    /\ UNCHANGED <<construction_vars, error, tree, service, scaling, listeners,
                   rules, listener_port_to_listener, outputs>>

\* the statement of Webservice.__init__ that follows lines 246-255
statement_after_target_groups_is_listeners == "listeners"

statement_after_target_groups == "service"

\* the comprehension of lines 441-451 is exhausted
TargetGroupsDone ==
    /\ Running("target_groups")
    /\ idx > Len(args.load_balancer_to_container_port_mappings)
    /\ idx' = 1
    /\ pc' = statement_after_target_groups
    /\ UNCHANGED <<construction_vars, error, tree, target_groups,
                   container_port_to_target_group, service, scaling, listeners,
                   rules, listener_port_to_listener, outputs>>

-----------------------------------------------------------------------------
(* Service and autoscaling (lines 257-276, 351-372, 480-533) *)

\* line 263 and the loop of lines 530-531: the service is attached to each
\* target group of list(container_port_to_target_group.values()), in order
attach_to_application_target_groups_none(mapping) == <<>>

attach_to_application_target_groups(mapping) == DictValues(mapping)

\* lines 257-265: make_service constructs the service and attaches it to the
\* target groups
Service ==
    /\ Running("service")
    /\ service' = [created |-> TRUE,
                   cluster |-> self_ecs_cluster,
                   desired_count |-> args.ecs_desired_num_instances,
                   target_groups |->
                       attach_to_application_target_groups(container_port_to_target_group)]
    /\ tree' = tree \cup {Node("self", "{id}EcsService")}
    /\ pc' = "auto_scaling"
    /\ UNCHANGED <<construction_vars, error, target_groups,
                   container_port_to_target_group, idx, scaling, listeners,
                   rules, listener_port_to_listener, outputs>>

\* `x and cdk.Duration.seconds(x)` (lines 366-367): a falsy x is passed on as
\* it is; a Duration is written as its number of seconds
cooldown(seconds) == seconds

CapacityRangeError == "auto_scale_task_count: invalid capacity range"

\* line 362: service.auto_scale_task_count(min_capacity=min_tasks, max_capacity=max_tasks)
auto_scale_task_count_default_min(min_tasks, max_tasks) ==
    [min_capacity |-> 1, max_capacity |-> max_tasks]

auto_scale_task_count(min_tasks, max_tasks) ==
    [min_capacity |-> min_tasks, max_capacity |-> max_tasks]

\* lines 267-276: configure_ecs_service_auto_scaling.  auto_scale_task_count
\* rejects negative capacities and min_capacity > max_capacity.
AutoScaling ==
    /\ Running("auto_scaling")
    /\ LET capacity == auto_scale_task_count(args.min_tasks, args.max_tasks)
       IN
       IF \/ capacity.min_capacity < 0
          \/ capacity.max_capacity < 0
          \/ capacity.max_capacity < capacity.min_capacity
       THEN /\ error' = CapacityRangeError
            /\ UNCHANGED <<scaling, pc>>
       ELSE /\ scaling' =
                   [created |-> TRUE,
                    min_capacity |-> capacity.min_capacity,
                    max_capacity |-> capacity.max_capacity,
                    policies |->
                        {[id |-> "{id}CpuScaling",
                          target_utilization_percent |-> args.target_cpu_utilization_percent,
                          scale_in_cooldown |-> cooldown(args.scale_in_cooldown_seconds),
                          scale_out_cooldown |-> cooldown(args.scale_out_cooldown_seconds)],
                         [id |-> "{id}MemoryScaling",
                          target_utilization_percent |-> args.target_memory_utilization_percent,
                          scale_in_cooldown |-> None,
                          scale_out_cooldown |-> None]}]
            /\ pc' = "listeners"
            /\ UNCHANGED error
    /\ UNCHANGED <<construction_vars, tree, target_groups,
                   container_port_to_target_group, idx, service, listeners,
                   rules, listener_port_to_listener, outputs>>

-----------------------------------------------------------------------------
(* Routing: listeners and rules (lines 278-284, 556-629) *)

NotFound == [kind |-> "fixed_response", content_type |-> "text/html",
             message_body |-> "Sorry mate! 404 Page not found.", status_code |-> 404]

\* the port the listener listens on (line 604)
listener_on_container_port(port_mapping) == port_mapping.container_port

listener_port_of(port_mapping) == port_mapping.listener_port

\* line 571: container_port_to_target_group[port_mapping.container_port]
target_group_for(port_mapping) ==
    DictGet(container_port_to_target_group, port_mapping.container_port)

\* make_load_balancer_listener, lines 601-614, for the idx-th port mapping
ListenerNew ==
    /\ Running("listeners")
    /\ LET port_mappings == args.load_balancer_to_container_port_mappings
       IN /\ idx <= Len(port_mappings)
          /\ IF Node("self", "{id}Listener") \in tree
             THEN /\ error' = DuplicateId
                  /\ UNCHANGED <<tree, listeners, pc>>
             ELSE /\ tree' = tree \cup {Node("self", "{id}Listener")}
                  /\ listeners' =
                         Append(listeners,
                                [port |-> listener_port_of(port_mappings[idx]),
                                 protocol |-> "HTTP",
                                 load_balancer |-> self_load_balancer,
                                 default_action |-> NotFound])
                  /\ pc' = "listener_rule"
                  /\ UNCHANGED error
    /\ UNCHANGED <<construction_vars, target_groups,
                   container_port_to_target_group, idx, service, scaling,
                   rules, listener_port_to_listener, outputs>>

\* line 625: priority=2
forward_rule_priority == 2

\* make_load_balancer_listener, lines 616-629, and the dict entry of line 572
ListenerRule ==
    /\ Running("listener_rule")
    /\ LET port_mapping == args.load_balancer_to_container_port_mappings[idx]
           n == Len(listeners)
       IN IF Node("self", "{id}ListenerRule") \in tree
          THEN /\ error' = DuplicateId
               /\ UNCHANGED <<tree, rules, listener_port_to_listener, idx, pc>>
          ELSE /\ tree' = tree \cup {Node("self", "{id}ListenerRule")}
               /\ rules' =
                      Append(rules,
                             [listener |-> n,
                              path_patterns |-> {port_mapping.path_pattern},
                              priority |-> forward_rule_priority,
                              action |-> "forward",
                              target_group |-> target_group_for(port_mapping)])
               /\ listener_port_to_listener' =
                      DictSet(listener_port_to_listener, port_mapping.listener_port, n)
               /\ idx' = idx + 1
               /\ pc' = "listeners"
               /\ UNCHANGED error
    /\ UNCHANGED <<construction_vars, target_groups,
                   container_port_to_target_group, service, scaling, listeners,
                   outputs>>

\* the loop of lines 570-579 is exhausted
ListenersDone ==
    /\ Running("listeners")
    /\ idx > Len(args.load_balancer_to_container_port_mappings)
    /\ pc' = "output"
    /\ UNCHANGED <<construction_vars, error, tree, target_groups,
                   container_port_to_target_group, idx, service, scaling,
                   listeners, rules, listener_port_to_listener, outputs>>

\* line 286: self.make_output("LoadBalancerUrl", ...)
Output ==
    /\ Running("output")
    /\ outputs' = outputs \cup {"LoadBalancerUrl"}
    /\ tree' = tree \cup {Node("self", "LoadBalancerUrl")}
    /\ pc' = "done"
    /\ UNCHANGED <<construction_vars, error, target_groups,
                   container_port_to_target_group, idx, service, scaling,
                   listeners, rules, listener_port_to_listener>>

Next ==
    \/ Super
    \/ Validate
    \/ LogGroup
    \/ ResolveVpc
    \/ LoadBalancer
    \/ Cluster
    \/ TaskDefinition
    \/ TargetGroupNew
    \/ TargetGroupHealthCheck
    \/ TargetGroupsDone
    \/ Service
    \/ AutoScaling
    \/ ListenerNew
    \/ ListenerRule
    \/ ListenersDone
    \/ Output

Spec == Init /\ [][Next]_vars

-----------------------------------------------------------------------------
(* The deployed service under its scaling policies *)

MaxTasks == 2

TaskBounds == -1..MaxTasks
DesiredCounts == 0..MaxTasks

\* one valid single-mapping specification for every choice of the task counts
ArgumentsScale ==
    [load_balancer_to_container_port_mappings :
         {<<[listener_port |-> 80, container_port |-> 3000, path_pattern |-> "*"]>>},
     health_check_path : HealthCheckPaths,
     health_check_port : {None},
     ecs_desired_num_instances : DesiredCounts,
     min_tasks : TaskBounds,
     max_tasks : TaskBounds,
     scale_in_cooldown_seconds : {None},
     scale_out_cooldown_seconds : {None},
     target_memory_utilization_percent : {50},
     target_cpu_utilization_percent : {50},
     docker_image : {TRUE},
     docker_build_context : {FALSE},
     docker_build_args : {FALSE},
     relative_dockerfile_path : {FALSE},
     vpc_id : {FALSE},
     ecs_cluster_in_vpc : {TRUE},
     load_balancer : {TRUE},
     container_env_vars_overrides : {EmptyDict}]

InitScale ==
    /\ \E a \in ArgumentsScale : WebserviceStart(a)
    /\ previous = NoPrevious
    /\ replicas = None
    /\ protect_error = "none"
    /\ MetaflowIdle

\* the capacity a scaling activity sets: the policy's value, held between the
\* scalable target's min_capacity and max_capacity
clamp(count) ==
    IF count < scaling.min_capacity THEN scaling.min_capacity
    ELSE IF count > scaling.max_capacity THEN scaling.max_capacity
    ELSE count

\* the completed graph is deployed: the service starts desired_count tasks (line 518)
Deploy ==
    /\ pc = "done"
    /\ replicas = None
    /\ replicas' = service.desired_count
    /\ UNCHANGED <<webservice_vars, previous, protect_error, metaflow_vars>>

\* the CPU or the memory policy (lines 363-372) asks for more tasks
ScaleOut ==
    /\ replicas # None
    /\ \E policy \in scaling.policies, count \in (replicas + 1)..(MaxTasks + 1) :
           replicas' = clamp(count)
    /\ UNCHANGED <<webservice_vars, previous, protect_error, metaflow_vars>>

\* the CPU or the memory policy (lines 363-372) asks for fewer tasks
ScaleIn ==
    /\ replicas # None
    /\ \E policy \in scaling.policies, count \in 0..(replicas - 1) :
           replicas' = clamp(count)
    /\ UNCHANGED <<webservice_vars, previous, protect_error, metaflow_vars>>

NextScale == Next \/ Deploy \/ ScaleOut \/ ScaleIn

SpecScale == InitScale /\ [][NextScale]_vars

-----------------------------------------------------------------------------
(* Two isolated calls on the same arguments *)

\* the structure of the graph built so far: how many target groups and
\* listeners, container port -> health check (port, path), and
\* listener port -> (path patterns, container port of the rule's target group)
Graph ==
    [completed |-> TRUE,
     n_target_groups |-> Len(target_groups),
     n_listeners |-> Len(listeners),
     target_groups |->
         {<<target_groups[t].port, target_groups[t].health_check_port,
            target_groups[t].health_check_path>> : t \in DOMAIN target_groups},
     listeners |->
         {<<listeners[rules[r].listener].port, rules[r].path_patterns,
            target_groups[rules[r].target_group].port>> : r \in DOMAIN rules}]

\* a caller that has completed one Webservice constructs a second one from the
\* same arguments under a fresh parent scope (a new App and Stack)
Again ==
    /\ pc = "done"
    /\ ~previous.completed
    /\ previous' = Graph
    /\ pc' = "super"
    /\ tree' = {}
    /\ health_check_port' = args.health_check_port
    /\ vpc' = "none"
    /\ self_load_balancer' = "none"
    /\ self_ecs_cluster' = "none"
    /\ vpc_of' = NoVpcOf
    /\ task_definition' = NoTaskDefinition
    /\ target_groups' = <<>>
    /\ container_port_to_target_group' = EmptyDict
    /\ idx' = 1
    /\ service' = NoService
    /\ scaling' = NoScaling
    /\ listeners' = <<>>
    /\ rules' = <<>>
    /\ listener_port_to_listener' = EmptyDict
    /\ outputs' = {}
    /\ UNCHANGED <<args, error, replicas, protect_error, metaflow_vars>>

NextTwice == Next \/ Again

SpecTwice == Init /\ [][NextTwice]_vars

-----------------------------------------------------------------------------
(* Metaflow.__init__ (main.py, lines 99-216) *)

MetaflowArguments ==
    [vpc : BOOLEAN, vpc_cidr : BOOLEAN, artifacts_bucket_name : BOOLEAN,
     enable_ui : BOOLEAN, enable_sagemaker : BOOLEAN]

\* Webservice calls on one port mapping, for every choice of the image and
\* network options
ArgumentsOptions ==
    [load_balancer_to_container_port_mappings :
         {<<[listener_port |-> 80, container_port |-> 3000, path_pattern |-> "*"]>>},
     health_check_path : HealthCheckPaths,
     health_check_port : {None},
     ecs_desired_num_instances : {1},
     min_tasks : {1},
     max_tasks : {1},
     scale_in_cooldown_seconds : {None},
     scale_out_cooldown_seconds : {None},
     target_memory_utilization_percent : {50},
     target_cpu_utilization_percent : {50},
     docker_image : BOOLEAN,
     docker_build_context : BOOLEAN,
     docker_build_args : {FALSE},
     relative_dockerfile_path : {FALSE},
     vpc_id : BOOLEAN,
     ecs_cluster_in_vpc : BOOLEAN,
     load_balancer : BOOLEAN,
     container_env_vars_overrides : {EmptyDict}]

\* the arguments of the Webservice call in UIBackendService.__init__
\* (ui/ecs.py, lines 91-139) on the arguments Metaflow passes (main.py, 179-196)
UIBackendServiceArguments ==
    [load_balancer_to_container_port_mappings |->
         <<[listener_port |-> 8083, container_port |-> 8083, path_pattern |-> "/api/*"]>>,
     health_check_path |-> "/",
     health_check_port |-> None,
     ecs_desired_num_instances |-> 1,
     min_tasks |-> 1,
     max_tasks |-> 1,
     scale_in_cooldown_seconds |-> None,
     scale_out_cooldown_seconds |-> None,
     target_memory_utilization_percent |-> 50,
     target_cpu_utilization_percent |-> 50,
     docker_image |-> TRUE,
     docker_build_context |-> FALSE,
     docker_build_args |-> FALSE,
     relative_dockerfile_path |-> FALSE,
     vpc_id |-> TRUE,
     ecs_cluster_in_vpc |-> TRUE,
     load_balancer |-> TRUE,
     container_env_vars_overrides |->
         <<[key |-> "MF_METADATA_DB_HOST", value |-> "{db_host}"],
           [key |-> "MF_METADATA_DB_PORT", value |-> "{db_port}"],
           [key |-> "MF_METADATA_DB_USER", value |-> "{db_user}"],
           [key |-> "MF_METADATA_DB_PSWD", value |-> "{db_password_token}"],
           [key |-> "MF_METADATA_DB_NAME", value |-> "{db_name}"],
           [key |-> "UI_ENABLED", value |-> "1"],
           [key |-> "PATH_PREFIX", value |-> "/api/"],
           [key |-> "MF_DATASTORE_ROOT", value |-> "s3://{bucket}/metaflow"],
           [key |-> "METAFLOW_DATASTORE_SYSROOT_S3", value |-> "s3://{bucket}/metaflow"],
           [key |-> "LOGLEVEL", value |-> "DEBUG"],
           [key |-> "METAFLOW_SERVICE_URL", value |-> "http://localhost:{container_port}/api/metadata"],
           [key |-> "METAFLOW_DEFAULT_DATASTORE", value |-> "s3"],
           [key |-> "METAFLOW_DEFAULT_METADATA", value |-> "service"]>>]

\* config.py, line 37: MetaflowUIBackendServiceConstants.CONTAINER_PORT
UI_BACKEND_CONTAINER_PORT == 8083

\* metadata_service/ecs.py, line 105: listener_port=80
METADATA_SERVICE_LISTENER_PORT == 80

\* config.py, line 47: MetaflowUIBackendServiceConstants.URL_PATH_PREFIX
URL_PATH_PREFIX == "/api/"

\* the arguments of the Webservice call in UIBackendService.__init__
\* (ui/ecs.py, lines 91-139) for the three parameters that it reads
UIBackendServiceWebserviceArguments(load_balancer_listener_port, container_port, url_path_prefix) ==
    [UIBackendServiceArguments EXCEPT
        !.load_balancer_to_container_port_mappings =
            <<[listener_port |-> load_balancer_listener_port,
               container_port |-> container_port,
               path_pattern |-> url_path_prefix \o "*"]>>,
        !.container_env_vars_overrides =
            DictSet(DictSet(@, "PATH_PREFIX", url_path_prefix),
                    "METAFLOW_SERVICE_URL",
                    "http://localhost:{container_port}" \o url_path_prefix \o "metadata")]

\* ui/ecs.py, line 241: f"http://{alb.load_balancer_dns_name}:{container_port}{url_path_prefix}"
url(load_balancer_listener_port, container_port, url_path_prefix) ==
    [host |-> "alb.load_balancer_dns_name", port |-> container_port,
     path |-> url_path_prefix]

\* Webservice.__init__ is entered on the argument list a, in a fresh scope
WebserviceCalled(a) ==
    /\ args' = a
    /\ pc' = "super"
    /\ error' = "none"
    /\ tree' = {}
    /\ health_check_port' = a.health_check_port
    /\ vpc' = "none"
    /\ self_load_balancer' = "none"
    /\ self_ecs_cluster' = "none"
    /\ vpc_of' = NoVpcOf
    /\ task_definition' = NoTaskDefinition
    /\ target_groups' = <<>>
    /\ container_port_to_target_group' = EmptyDict
    /\ idx' = 1
    /\ service' = NoService
    /\ scaling' = NoScaling
    /\ listeners' = <<>>
    /\ rules' = <<>>
    /\ listener_port_to_listener' = EmptyDict
    /\ outputs' = {}

\* ui/ecs.py, lines 88-139: UIBackendService.__init__ is entered and calls Webservice
UIBackendServiceEntered(load_balancer_listener_port, container_port, url_path_prefix) ==
    /\ ui_backend_service' =
           [called |-> TRUE, returned |-> FALSE,
            load_balancer_listener_port |-> load_balancer_listener_port,
            container_port |-> container_port,
            url_path_prefix |-> url_path_prefix,
            url |-> <<>>]
    /\ WebserviceCalled(UIBackendServiceWebserviceArguments(
           load_balancer_listener_port, container_port, url_path_prefix))

\* ui/ecs.py, lines 91-241: the Webservice call has ended.  An exception leaves
\* UIBackendService.__init__ before line 241; otherwise self.url is set.
UIBackendServiceLeft ==
    ui_backend_service' =
        [ui_backend_service EXCEPT
            !.returned = TRUE,
            !.url = IF error # "none"
                    THEN <<>>
                    ELSE <<url(ui_backend_service.load_balancer_listener_port,
                               ui_backend_service.container_port,
                               ui_backend_service.url_path_prefix)>>]

MetaflowRunning(label) == metaflow_pc = label /\ metaflow_error = "none"

\* lines 113-115: assert not (vpc and vpc_cidr)
metaflow_validation_error_skipped(a) == "none"

metaflow_validation_error(a) ==
    IF a.vpc /\ a.vpc_cidr
    THEN "vpc and vpc_cidr cannot both be set; set only one"
    ELSE "none"

\* a caller whose Webservice call has ended constructs a Metaflow deployment
MetaflowStart ==
    /\ metaflow_pc = "idle"
    /\ Terminated
    /\ \E a \in MetaflowArguments : metaflow_args' = a
    /\ metaflow_pc' = "super"
    /\ UNCHANGED <<webservice_vars, previous, replicas, protect_error, metaflow_listeners,
                   ui_backend_service, metaflow_error, metaflow_tree>>

\* line 111: super().__init__(scope, construct_id, **kwargs)
MetaflowSuper ==
    /\ MetaflowRunning("super")
    /\ metaflow_tree' = metaflow_tree \cup {Node("scope", "{id}")}
    /\ metaflow_pc' = "assert"
    /\ UNCHANGED <<webservice_vars, previous, replicas, protect_error, metaflow_listeners,
                   ui_backend_service, metaflow_args, metaflow_error>>

\* lines 113-115
MetaflowAssert ==
    /\ MetaflowRunning("assert")
    /\ LET e == metaflow_validation_error(metaflow_args)
       IN IF e # "none"
          THEN metaflow_error' = e /\ UNCHANGED metaflow_pc
          ELSE metaflow_pc' = "vpc" /\ UNCHANGED metaflow_error
    /\ UNCHANGED <<webservice_vars, previous, replicas, protect_error, metaflow_listeners,
                   ui_backend_service, metaflow_args, metaflow_tree>>

\* line 117: vpc = vpc or make_low_cost_vpc(scope=self, cidr=vpc_cidr)
MetaflowVpc ==
    /\ MetaflowRunning("vpc")
    /\ metaflow_tree' =
           IF metaflow_args.vpc
           THEN metaflow_tree
           ELSE metaflow_tree \cup {Node("self", "vpc")}
    /\ metaflow_pc' = "storage"
    /\ UNCHANGED <<webservice_vars, previous, replicas, protect_error, metaflow_listeners,
                   ui_backend_service, metaflow_args, metaflow_error>>

\* lines 118-123: the artifacts bucket, looked up or created under one id
\* (lines 297-315), and the metadata database
MetaflowStorage ==
    /\ MetaflowRunning("storage")
    /\ metaflow_tree' = metaflow_tree \cup
           {Node("self", "{id}-artifacts-bucket"), Node("self", "metaflow-metadata-db")}
    /\ metaflow_pc' = "batch"
    /\ UNCHANGED <<webservice_vars, previous, replicas, protect_error, metaflow_listeners,
                   ui_backend_service, metaflow_args, metaflow_error>>

\* lines 127-148: the state table, the IAM role, the compute environment, the
\* job queue and their two outputs
MetaflowBatch ==
    /\ MetaflowRunning("batch")
    /\ metaflow_tree' = metaflow_tree \cup
           {Node("self", "{id}metaflow-sfn-state-ddb-table"),
            Node("self", "ecs_s3_access_iam_role"),
            Node("self", "METAFLOW_ECS_S3_ACCESS_IAM_ROLE"),
            Node("self", "compute_environment"),
            Node("self", "batch_job_queue"),
            Node("self", "METAFLOW_BATCH_JOB_QUEUE")}
    /\ metaflow_pc' = "load_balancer"
    /\ UNCHANGED <<webservice_vars, previous, replicas, protect_error, metaflow_listeners,
                   ui_backend_service, metaflow_args, metaflow_error>>

\* lines 152-176: the shared load balancer, the cluster and the metadata service
MetaflowServices ==
    /\ MetaflowRunning("load_balancer")
    /\ metaflow_tree' = metaflow_tree \cup
           {Node("self", "application-load-balancer"),
            Node("self", "metaflow-cluster"),
            Node("self", "metaflow-metadata-service")}
    /\ metaflow_listeners' = metaflow_listeners \cup
           {[service |-> "metaflow-metadata-service",
             port |-> METADATA_SERVICE_LISTENER_PORT]}
    /\ metaflow_pc' = "enable_ui"
    /\ UNCHANGED <<webservice_vars, previous, replicas, protect_error, ui_backend_service,
                   metaflow_args, metaflow_error>>

\* lines 178-196: with enable_ui, UIBackendService.__init__ runs and calls
\* Webservice (ui/ecs.py, lines 88-139)
MetaflowUIBackendService ==
    /\ MetaflowRunning("enable_ui")
    /\ metaflow_args.enable_ui
    /\ metaflow_tree' = metaflow_tree \cup {Node("self", "metaflow-ui-backend-service")}
    /\ metaflow_pc' = "ui_backend_service"
    /\ UIBackendServiceEntered(UI_BACKEND_CONTAINER_PORT, UI_BACKEND_CONTAINER_PORT,
                               URL_PATH_PREFIX)
    /\ UNCHANGED <<previous, replicas, protect_error, metaflow_args, metaflow_error, metaflow_listeners>>

\* the Webservice call of UIBackendService has ended: its exception, if any,
\* leaves Metaflow.__init__ through line 179
MetaflowUIBackendServiceReturn ==
    /\ MetaflowRunning("ui_backend_service")
    /\ Terminated
    /\ UIBackendServiceLeft
    /\ IF error # "none"
       THEN /\ metaflow_error' = error
            /\ UNCHANGED <<metaflow_pc, metaflow_listeners>>
       ELSE /\ metaflow_pc' = "ui_frontend_service"
            /\ metaflow_listeners' = metaflow_listeners \cup
                   {[service |-> "metaflow-ui-backend-service", port |-> listeners[l].port] :
                        l \in DOMAIN listeners}
            /\ UNCHANGED metaflow_error
    /\ UNCHANGED <<webservice_vars, previous, replicas, protect_error, metaflow_args, metaflow_tree>>

\* lines 211-216, without the UI
MetaflowOutputs ==
    /\ MetaflowRunning("enable_ui")
    /\ ~metaflow_args.enable_ui
    /\ metaflow_tree' = metaflow_tree \cup
           {Node("self", "DatabaseUrl"), Node("self", "LoadBalancerUrl"),
            Node("self", "MetadataAndUIEcsCluster")}
    /\ metaflow_pc' = "done"
    /\ UNCHANGED <<webservice_vars, previous, replicas, protect_error, metaflow_listeners,
                   ui_backend_service, metaflow_args, metaflow_error>>

InitMetaflow ==
    /\ \E a \in ArgumentsOptions : WebserviceStart(a)
    /\ previous = NoPrevious
    /\ replicas = None
    /\ protect_error = "none"
    /\ MetaflowIdle

NextMetaflow ==
    \/ Next
    \/ MetaflowStart
    \/ MetaflowSuper
    \/ MetaflowAssert
    \/ MetaflowVpc
    \/ MetaflowStorage
    \/ MetaflowBatch
    \/ MetaflowServices
    \/ MetaflowUIBackendService
    \/ MetaflowUIBackendServiceReturn
    \/ MetaflowOutputs

SpecMetaflow == InitMetaflow /\ [][NextMetaflow]_vars

-----------------------------------------------------------------------------
(* UIBackendService.__init__ (ui/ecs.py, lines 65-241) called on its own *)

UIBackendPorts == {METADATA_SERVICE_LISTENER_PORT, UI_BACKEND_CONTAINER_PORT}

UrlPathPrefixes == {URL_PATH_PREFIX, "/"}

\* a caller whose Webservice call has ended constructs a UIBackendService
UIBackendServiceCall ==
    /\ metaflow_pc = "idle"
    /\ ~ui_backend_service.called
    /\ Terminated
    /\ \E load_balancer_listener_port \in UIBackendPorts, container_port \in UIBackendPorts,
          url_path_prefix \in UrlPathPrefixes :
           UIBackendServiceEntered(load_balancer_listener_port, container_port,
                                   url_path_prefix)
    /\ UNCHANGED <<previous, replicas, protect_error, metaflow_args, metaflow_pc, metaflow_error,
                   metaflow_tree, metaflow_listeners>>

\* the Webservice call of that UIBackendService has ended
UIBackendServiceReturn ==
    /\ metaflow_pc = "idle"
    /\ ui_backend_service.called
    /\ ~ui_backend_service.returned
    /\ Terminated
    /\ UIBackendServiceLeft
    /\ UNCHANGED <<webservice_vars, previous, replicas, protect_error, metaflow_args, metaflow_pc,
                   metaflow_error, metaflow_tree, metaflow_listeners>>

NextUIBackend == Next \/ UIBackendServiceCall \/ UIBackendServiceReturn

SpecUIBackend == InitMetaflow /\ [][NextUIBackend]_vars

-----------------------------------------------------------------------------
(* Calls that pass environment overrides *)

\* values of container_env_vars_overrides; None and {} both give {} at line 238
EnvironmentOverrides ==
    {EmptyDict,
     <<[key |-> "LOGLEVEL", value |-> "DEBUG"]>>,
     <<[key |-> "LOGLEVEL", value |-> "DEBUG"], [key |-> "UI_ENABLED", value |-> "1"]>>}

\* every port-mapping list and health-check port, with and without a registry
\* image or a build context, in a supplied cluster behind a supplied load balancer
ArgumentsEnvironment ==
    [load_balancer_to_container_port_mappings : MappingLists,
     health_check_path : HealthCheckPaths,
     health_check_port : HealthCheckPorts,
     ecs_desired_num_instances : {1},
     min_tasks : {1},
     max_tasks : {1},
     scale_in_cooldown_seconds : {None},
     scale_out_cooldown_seconds : {None},
     target_memory_utilization_percent : {50},
     target_cpu_utilization_percent : {50},
     docker_image : BOOLEAN,
     docker_build_context : BOOLEAN,
     docker_build_args : {FALSE},
     relative_dockerfile_path : {FALSE},
     vpc_id : {FALSE},
     ecs_cluster_in_vpc : BOOLEAN,
     load_balancer : {TRUE},
     container_env_vars_overrides : EnvironmentOverrides]

InitEnvironment ==
    /\ \E a \in ArgumentsEnvironment : WebserviceStart(a)
    /\ previous = NoPrevious
    /\ replicas = None
    /\ protect_error = "none"
    /\ MetaflowIdle

SpecEnvironment == InitEnvironment /\ [][Next]_vars

-----------------------------------------------------------------------------
(* Calls that pass scaling thresholds and cooldowns *)

\* seconds passed as scale_in_cooldown_seconds and scale_out_cooldown_seconds
CooldownSeconds == {None, 60, 300}

\* values of the two target_*_utilization_percent parameters
UtilizationPercents == {50, 75}

\* one valid single-mapping specification for every choice of the thresholds
\* and cooldowns
ArgumentsCooldown ==
    [load_balancer_to_container_port_mappings :
         {<<[listener_port |-> 80, container_port |-> 3000, path_pattern |-> "*"]>>},
     health_check_path : HealthCheckPaths,
     health_check_port : {None},
     ecs_desired_num_instances : {1},
     min_tasks : {1},
     max_tasks : {1},
     scale_in_cooldown_seconds : CooldownSeconds,
     scale_out_cooldown_seconds : CooldownSeconds,
     target_memory_utilization_percent : UtilizationPercents,
     target_cpu_utilization_percent : UtilizationPercents,
     docker_image : {TRUE},
     docker_build_context : {FALSE},
     docker_build_args : {FALSE},
     relative_dockerfile_path : {FALSE},
     vpc_id : {FALSE},
     ecs_cluster_in_vpc : {TRUE},
     load_balancer : {TRUE},
     container_env_vars_overrides : {EmptyDict}]

InitCooldown ==
    /\ \E a \in ArgumentsCooldown : WebserviceStart(a)
    /\ previous = NoPrevious
    /\ replicas = None
    /\ protect_error = "none"
    /\ MetaflowIdle

SpecCooldown == InitCooldown /\ [][Next]_vars

-----------------------------------------------------------------------------
(* OIDC authentication on a listener: protect_ui_endpoint_with_auth0 *)
(* (webservice/h2m_auth.py, lines 65-108)                             *)

\* id_prefix arguments of protect_ui_endpoint_with_auth0
IdPrefixes == {"{id}", "{id}Auth0"}

\* url_patterns arguments
UrlPatterns == {{"/api/*"}, {"*"}}

IndexError == "list index out of range"

\* h2m_auth.py line 85: alb.listeners[0].  A listener is in alb.listeners once
\* the load balancer has registered it, which is the library's doing: the
\* subscript yields the first listener on the load balancer (index 1 of
\* listeners), or raises IndexError (written 0) when the list is empty
first_listener ==
    IF listeners = <<>> THEN {0} ELSE {0, 1}

\* h2m_auth.py line 104: priority=1
auth_rule_priority_of_forward_rule == forward_rule_priority

auth_rule_priority == 1

\* protect_ui_endpoint_with_auth0 called on the load balancer of a completed
\* Webservice, with the Webservice as scope: lines 85-108
Protect ==
    /\ pc = "done"
    /\ protect_error = "none"
    /\ \E id_prefix \in IdPrefixes, url_patterns \in UrlPatterns,
          target_group \in DOMAIN target_groups, listener \in first_listener :
          IF listener = 0
          THEN /\ protect_error' = IndexError
               /\ UNCHANGED <<tree, rules>>
          ELSE IF Node("self", id_prefix \o "LBListenerRule") \in tree
          THEN /\ protect_error' = DuplicateId
               /\ UNCHANGED <<tree, rules>>
          ELSE /\ tree' = tree \cup {Node("self", id_prefix \o "LBListenerRule")}
               /\ rules' =
                      Append(rules,
                             [listener |-> listener,
                              path_patterns |-> url_patterns,
                              priority |-> auth_rule_priority,
                              action |-> "authenticate_oidc",
                              target_group |-> target_group])
               /\ UNCHANGED protect_error
    /\ UNCHANGED <<args, pc, error, health_check_port, vpc, self_load_balancer,
                   self_ecs_cluster, vpc_of, task_definition, target_groups,
                   container_port_to_target_group, idx, service, scaling,
                   listeners, listener_port_to_listener, outputs, previous,
                   replicas, metaflow_vars>>

NextAuth == Next \/ Protect

SpecAuth == InitEnvironment /\ [][NextAuth]_vars

-----------------------------------------------------------------------------
(* Vocabulary of the properties *)

Mappings == args.load_balancer_to_container_port_mappings

HasDuplicateListenerPort ==
    \E i, j \in DOMAIN Mappings :
        i # j /\ Mappings[i].listener_port = Mappings[j].listener_port

\* an image or network option pair that lines 201-208 reject
OptionConflict ==
    \/ args.docker_image /\ args.docker_build_context
    \/ args.docker_image /\ args.docker_build_args
    \/ args.docker_image /\ args.relative_dockerfile_path
    \/ args.vpc_id /\ args.ecs_cluster_in_vpc

ValidationRan == pc # "super" /\ ~(pc = "validate" /\ error = "none")

ValidationFailed == pc = "validate" /\ error \in ValidationErrors

ValidationPassed == pc \notin {"super", "validate"}

\* the call has entered the routing stage (line 246 and after)
InRouting ==
    pc \in {"target_groups", "target_group_health_check", "service",
            "auto_scaling", "listeners", "listener_rule", "output", "done"}

\* the target-group expansion of lines 246-255 has ended, normally or by raising
TargetGroupExpansionEnded ==
    \/ pc \in {"service", "auto_scaling", "listeners", "listener_rule", "output", "done"}
    \/ pc = "target_groups" /\ error # "none"

DistinctContainerPorts == {Mappings[i].container_port : i \in DOMAIN Mappings}

\* the five stages validate, resolve network, package runtime, route, scale,
\* with the service counted to the routing stage it is attached to
Stage(label) ==
    CASE label \in {"super", "validate"} -> 1
      [] label \in {"log_group", "vpc", "load_balancer", "cluster"} -> 2
      [] label = "task_definition" -> 3
      [] label \in {"target_groups", "target_group_health_check", "service",
                    "listeners", "listener_rule"} -> 4
      [] label = "auto_scaling" -> 5
      [] OTHER -> 6

\* the position of a statement in the text of Webservice.__init__
Position(label) ==
    CASE label \in {"super", "validate"} -> 1
      [] label \in {"log_group", "vpc", "load_balancer", "cluster"} -> 2
      [] label = "task_definition" -> 3
      [] label \in {"target_groups", "target_group_health_check"} -> 4
      [] label = "service" -> 5
      [] label = "auto_scaling" -> 6
      [] label \in {"listeners", "listener_rule"} -> 7
      [] OTHER -> 8

-----------------------------------------------------------------------------
(* Properties *)

\* C1: a port-mapping list in which a listener_port occurs more than once never
\* gets past validation, and the call ends with one of the validation errors,
\* whatever the container ports, path patterns and health-check port are.
C1_DuplicateListenerPortRejected ==
    HasDuplicateListenerPort =>
        /\ ~ValidationPassed
        /\ (ValidationRan => ValidationFailed)

C1_Witness ==
    /\ HasDuplicateListenerPort
    /\ ValidationFailed
    /\ Truthy(args.health_check_port)

\* C2 (as stated): every specification whose listener ports are pairwise
\* distinct passes validation, with or without an explicit health-check port.
C2_DistinctListenerPortsAccepted ==
    ~HasDuplicateListenerPort => ~ValidationFailed

\* C2 (amended): a specification whose listener ports are pairwise distinct
\* passes validation when it also has a non-zero explicit health-check port or
\* exactly one mapping, and no conflicting image or network options.
C2_DistinctListenerPortsAcceptedWhenUnambiguous ==
    /\ ~HasDuplicateListenerPort
    /\ Truthy(args.health_check_port) \/ Len(Mappings) = 1
    /\ ~OptionConflict
    /\ ValidationRan
    => ValidationPassed /\ error \notin ValidationErrors

C2_Witness ==
    /\ ~HasDuplicateListenerPort
    /\ Len(Mappings) = 2
    /\ Truthy(args.health_check_port)
    /\ pc = "log_group"

\* C3: with exactly one PortMapping and no explicit health-check port, the
\* resolved health-check port, and the port of the health check configured on
\* every target group, is that mapping's container_port.
C3_InferredHealthCheckPort ==
    Len(Mappings) = 1 /\ args.health_check_port = None =>
        /\ ValidationPassed => health_check_port = Mappings[1].container_port
        /\ \A t \in DOMAIN target_groups :
               health_check_configured(target_groups[t]) =>
                   int(target_groups[t].health_check_port) = Mappings[1].container_port

C3_Witness ==
    /\ Len(Mappings) = 1
    /\ args.health_check_port = None
    /\ Len(target_groups) = 1
    /\ health_check_configured(target_groups[1])

\* C4: without an explicit health-check port, a list of more than one mapping
\* never gets past validation, also when the listener ports are distinct and
\* the mappings share a container_port.
C4_AmbiguousHealthCheckPortRejected ==
    args.health_check_port = None /\ Len(Mappings) > 1 =>
        /\ ~ValidationPassed
        /\ (ValidationRan => ValidationFailed)

C4_Witness ==
    /\ args.health_check_port = None
    /\ Len(Mappings) = 2
    /\ ~HasDuplicateListenerPort
    /\ Mappings[1].container_port = Mappings[2].container_port
    /\ error = "health_check_port is unset; a default value could not be inferred"

\* C5 (as stated): a specification with no PortMapping never passes validation,
\* with or without an explicit health-check port.
C5_EmptyMappingsRejected ==
    Len(Mappings) = 0 => ~ValidationPassed

\* C5 (amended): a specification with no PortMapping fails validation when no
\* health-check port is supplied (None or 0); with a non-zero explicit
\* health-check port it fails only on conflicting image or network options,
\* and passes otherwise.
C5_EmptyMappingsRejectedWithoutHealthCheckPort ==
    Len(Mappings) = 0 /\ ValidationRan =>
        (ValidationFailed <=> ~Truthy(args.health_check_port) \/ OptionConflict)

C5_Witness ==
    /\ Len(Mappings) = 0
    /\ args.health_check_port = None
    /\ ~OptionConflict
    /\ ValidationFailed

\* C6: when the list has a duplicate listener_port, the call raises while no
\* target group and no listener has been constructed.
C6_DuplicateFailsBeforeRouting ==
    HasDuplicateListenerPort /\ error # "none" =>
        /\ target_groups = <<>>
        /\ listeners = <<>>
        /\ Node("scope", "{id}TargetGroup") \notin tree
        /\ Node("self", "{id}Listener") \notin tree

C6_Witness ==
    /\ HasDuplicateListenerPort
    /\ error = "Conflicting port mappings appear in load_balancer_to_container_port_mappings"
    /\ target_groups = <<>>

\* C7: once the target-group expansion has ended, there is exactly one target
\* group per distinct container_port of the list, each with the resolved
\* health-check port and path.
C7_OneTargetGroupPerContainerPort ==
    TargetGroupExpansionEnded =>
        /\ Len(target_groups) = Cardinality(DistinctContainerPorts)
        /\ \A t \in DOMAIN target_groups :
               /\ target_groups[t].health_check_port = str(health_check_port)
               /\ target_groups[t].health_check_path = args.health_check_path

\* C8: once a validated call has entered routing and ended, it ended without an
\* error, with one listener per mapping, each with the 404 default action and
\* exactly one forwarding rule on the mapping's path_pattern.
C8_OneListenerPerMapping ==
    InRouting /\ Terminated =>
        /\ error = "none"
        /\ Len(listeners) = Len(Mappings)
        /\ \A i \in DOMAIN listeners :
               /\ listeners[i].port = Mappings[i].listener_port
               /\ listeners[i].default_action.status_code = 404
               /\ Cardinality({r \in DOMAIN rules : rules[r].listener = i}) = 1
               /\ \A r \in DOMAIN rules :
                      rules[r].listener = i =>
                          /\ rules[r].action = "forward"
                          /\ rules[r].path_patterns = {Mappings[i].path_pattern}

C10_TargetGroupsBeforeListenersBeforeRules ==
    [][/\ Len(rules') > Len(rules) =>
              LET r == rules'[Len(rules')]
              IN /\ r.target_group \in DOMAIN target_groups
                 /\ health_check_configured(target_groups[r.target_group])
                 /\ r.listener \in DOMAIN listeners
       /\ Len(listeners') > Len(listeners) =>
              /\ Len(target_groups) = Len(target_groups')
              /\ \A t \in DOMAIN target_groups :
                     health_check_configured(target_groups[t])
       /\ Len(target_groups') > Len(target_groups) =>
              listeners = <<>> /\ rules = <<>>]_vars

C10_Witness ==
    /\ Len(rules) = 1
    /\ pc = "listeners"
    /\ health_check_configured(target_groups[rules[1].target_group])

C13_ReplicaBoundsValidated ==
    /\ (\/ args.min_tasks > args.max_tasks
        \/ args.min_tasks < 0
        \/ args.max_tasks < 0) /\ ValidationRan
       => ValidationFailed
    /\ ValidationPassed =>
           /\ args.min_tasks <= args.ecs_desired_num_instances
           /\ args.ecs_desired_num_instances <= args.max_tasks

\* C14: a call that passes docker_image together with docker_build_context,
\* docker_build_args or relative_dockerfile_path never gets past validation:
\* it ends at the assertions of lines 201-205 with one of their three messages,
\* whatever the other arguments are.
C14_RegistryImageWithLocalBuildRejected ==
    (/\ args.docker_image
     /\ (\/ args.docker_build_context
         \/ args.docker_build_args
         \/ args.relative_dockerfile_path))
    => /\ ~ValidationPassed
       /\ ValidationRan =>
              /\ pc = "validate"
              /\ error \in {"docker_image and docker_build_context cannot both be set",
                            "docker_image and docker_build_args cannot both be set",
                            "docker_image and dockerfile_path cannot both be set"}

C14_Witness ==
    /\ args.docker_image
    /\ args.docker_build_args
    /\ ~args.docker_build_context
    /\ ~args.relative_dockerfile_path
    /\ pc = "validate"
    /\ error = "docker_image and docker_build_args cannot both be set"

\* C15: a call that passes neither docker_image nor docker_build_context never
\* completes: it raises at validation, at the VPC lookup or, at the latest, when
\* from_asset is asked to build an image without a directory (line 315); no
\* container image is resolved and no task definition is made in any of these.
C15_NoImageSourceRejected ==
    (~args.docker_image /\ ~args.docker_build_context)
    => /\ pc \in {"super", "validate", "log_group", "vpc", "load_balancer",
                  "cluster", "task_definition"}
       /\ task_definition = NoTaskDefinition
       /\ Node("self", "{id}TaskDefinition") \notin tree
       /\ (pc = "task_definition" /\ error # "none"
              => error = "from_asset: directory is required")

C15_Witness ==
    /\ ~args.docker_image
    /\ ~args.docker_build_context
    /\ pc = "task_definition"
    /\ error = "from_asset: directory is required"
    /\ task_definition.image = "none"

\* C16: two exclusive network sources given together are rejected before any
\* resource is built.  A Metaflow call with both vpc and vpc_cidr ends at the
\* assertion of lines 113-115 with only its own construct node in the tree, and
\* a Webservice call with both vpc_id and ecs_cluster_in_vpc ends at the
\* assertions of lines 201-218 with only its own construct node in the tree.
C16_ExclusiveNetworkSourcesRejected ==
    /\ (metaflow_args.vpc /\ metaflow_args.vpc_cidr) =>
           /\ metaflow_pc \in {"super", "assert"}
           /\ metaflow_tree \subseteq {Node("scope", "{id}")}
           /\ (metaflow_pc = "assert" /\ metaflow_error # "none" =>
                   metaflow_error = "vpc and vpc_cidr cannot both be set; set only one")
    /\ (args.vpc_id /\ args.ecs_cluster_in_vpc) =>
           /\ pc \in {"super", "validate"}
           /\ tree \subseteq {Node("scope", "{id}")}
           /\ (pc = "validate" /\ error # "none" => error \in ValidationErrors)

C16_Witness ==
    /\ metaflow_args.vpc
    /\ metaflow_args.vpc_cidr
    /\ metaflow_pc = "assert"
    /\ metaflow_error = "vpc and vpc_cidr cannot both be set; set only one"
    /\ args.vpc_id
    /\ args.ecs_cluster_in_vpc
    /\ ~args.docker_build_context
    /\ pc = "validate"
    /\ error = "vpc_id and ecs_cluster_in_vpc cannot both be set"

\* C17: a call that is given both ecs_cluster_in_vpc and load_balancer creates
\* no VPC, no cluster and no load balancer of its own, and everything it builds
\* is bound to what it was given: the target groups to the cluster's VPC, the
\* service to the supplied cluster, the listeners to the supplied load balancer.
C17_SuppliedClusterAndLoadBalancerPassedThrough ==
    (args.ecs_cluster_in_vpc /\ args.load_balancer) =>
        /\ Node("self", "{id}Vpc") \notin tree
        /\ Node("self", "{id}ALB") \notin tree
        /\ Node("self", "{id}-Cluster") \notin tree
        /\ vpc \in {"none", "ecs_cluster_in_vpc.vpc"}
        /\ self_load_balancer \in {"none", "supplied"}
        /\ self_ecs_cluster \in {"none", "supplied"}
        /\ \A t \in DOMAIN target_groups :
               target_groups[t].vpc = "ecs_cluster_in_vpc.vpc"
        /\ service.created => service.cluster = "supplied"
        /\ \A l \in DOMAIN listeners : listeners[l].load_balancer = "supplied"

C17_Witness ==
    /\ args.ecs_cluster_in_vpc
    /\ args.load_balancer
    /\ pc = "done"
    /\ Len(target_groups) = 1
    /\ Len(listeners) = 1
    /\ service.cluster = "supplied"
    /\ listeners[1].load_balancer = "supplied"

\* C18: whenever the call has raised, at validation or later, no log group,
\* VPC, load balancer, cluster, task definition, target group, service or
\* listener has been added to the construct tree.
C18_NoPartialGraphOnFailure ==
    error # "none" =>
        tree \cap {Node("self", "LogGroup"), Node("self", "{id}Vpc"),
                   Node("self", "{id}ALB"), Node("self", "{id}-Cluster"),
                   Node("self", "{id}TaskDefinition"),
                   Node("scope", "{id}TargetGroup"),
                   Node("self", "{id}EcsService"),
                   Node("self", "{id}Listener"),
                   Node("self", "{id}ListenerRule")} = {}

\* C19 (as stated): the stages run in the order validate, resolve network,
\* package runtime, route, scale; no step goes back to an earlier stage, and once
\* the scaling policies are bound every target group and every listener with
\* its rule has been constructed.
C19_ScalingAfterRouting ==
    [][/\ Stage(pc') >= Stage(pc)
       /\ scaling'.created =>
              /\ Len(target_groups') = Len(Mappings)
              /\ Len(listeners') = Len(Mappings)
              /\ Len(rules') = Len(Mappings)]_vars

\* C19 (amended): the statements run in the order validate, resolve network,
\* package runtime, target groups, service, autoscaling, listeners and rules,
\* and no step goes back.  The scaling policies are bound after every target
\* group and the service have been constructed and before any listener or rule.
C19_ScalingBetweenTargetGroupsAndListeners ==
    [][/\ Position(pc') >= Position(pc)
       /\ scaling'.created =>
              /\ Len(target_groups') = Len(Mappings)
              /\ service'.created
       /\ ~scaling'.created => listeners' = <<>> /\ rules' = <<>>
       /\ pc' = "done" => scaling'.created]_vars

C19_Witness ==
    /\ pc = "listener_rule"
    /\ scaling.created
    /\ service.created
    /\ Len(target_groups) = 1
    /\ Len(listeners) = 1
    /\ rules = <<>>

\* C20: no step of the call changes its input: the port-mapping list keeps its
\* length, its order and every mapping's listener_port, container_port and
\* path_pattern, and container_env_vars_overrides keeps its items, in calls
\* that complete and in calls that raise.
C20_InputNeverMutated ==
    [][/\ args'.load_balancer_to_container_port_mappings
              = args.load_balancer_to_container_port_mappings
       /\ args'.container_env_vars_overrides = args.container_env_vars_overrides
       /\ args' = args]_vars

C20_Witness ==
    /\ pc = "done"
    /\ Len(Mappings) = 1
    /\ Len(args.container_env_vars_overrides) = 2
    /\ task_definition.environment = args.container_env_vars_overrides

C22_UrlOnListenerPort ==
    ui_backend_service.returned =>
        /\ ui_backend_service.url # <<>>
        /\ ui_backend_service.url[1].port = ui_backend_service.load_balancer_listener_port
        /\ \E l \in DOMAIN listeners : listeners[l].port = ui_backend_service.url[1].port
        /\ \E r \in DOMAIN rules :
               rules[r].path_patterns = {ui_backend_service.url[1].path \o "*"}

\* C25: the Webservice call of UIBackendService passes the assertions of
\* Webservice.__init__ (lines 201-218) and goes on to construct resources.
C25_UIBackendServicePassesValidation ==
    (ui_backend_service.called /\ ValidationRan) => ValidationPassed

\* C23: the environment of the container definition holds every key of
\* container_env_vars_overrides with exactly the override's value, each key
\* once, and no other key.
C23_EnvironmentIsOverrides ==
    task_definition.created =>
        /\ DictKeys(task_definition.environment)
               = DictKeys(args.container_env_vars_overrides)
        /\ \A k \in DictKeys(args.container_env_vars_overrides) :
               DictGet(task_definition.environment, k)
                   = DictGet(args.container_env_vars_overrides, k)
        /\ Len(task_definition.environment)
               = Cardinality(DictKeys(task_definition.environment))

C23_Witness ==
    /\ task_definition.created
    /\ DictKeys(args.container_env_vars_overrides) = {"LOGLEVEL", "UI_ENABLED"}
    /\ DictGet(task_definition.environment, "LOGLEVEL") = "DEBUG"
    /\ DictGet(task_definition.environment, "UI_ENABLED") = "1"

\* C24: in a call that names a VPC by vpc_id, the local vpc is never a newly
\* created VPC: it is the VPC that from_lookup returned, the load balancer and
\* the cluster the call constructs and every target group are given that VPC,
\* and a failed lookup ends the call without any VPC.
C24_LookedUpVpcNeverReplaced ==
    args.vpc_id =>
        /\ vpc \in {"none", "from_lookup"}
        /\ vpc_of.load_balancer \in {"none", "from_lookup"}
        /\ vpc_of.ecs_cluster \in {"none", "from_lookup"}
        /\ \A t \in DOMAIN target_groups : target_groups[t].vpc = "from_lookup"
        /\ (error = "vpc lookup failed" => vpc = "none" /\ pc = "vpc")
        /\ (pc \in {"load_balancer", "cluster", "task_definition"} \/ InRouting
               => vpc = "from_lookup")

C24_Witness ==
    /\ args.vpc_id
    /\ pc = "done"
    /\ vpc = "from_lookup"
    /\ vpc_of.load_balancer = "from_lookup"
    /\ vpc_of.ecs_cluster = "from_lookup"
    /\ Len(target_groups) = 1
    /\ target_groups[1].vpc = "from_lookup"

\* C26: once configure_ecs_service_auto_scaling has run, the service has exactly
\* two scaling policies, one on CPU utilization with the caller's CPU target and
\* one on memory utilization with the caller's memory target, and each of the
\* two carries the caller's scale-in and scale-out cooldowns.
C26_TwoPoliciesWithCooldowns ==
    scaling.created =>
        /\ Cardinality(scaling.policies) = 2
        /\ \E cpu, memory \in scaling.policies :
              /\ cpu.id = "{id}CpuScaling"
              /\ memory.id = "{id}MemoryScaling"
              /\ cpu.target_utilization_percent = args.target_cpu_utilization_percent
              /\ memory.target_utilization_percent = args.target_memory_utilization_percent
        /\ \A policy \in scaling.policies :
              /\ policy.scale_in_cooldown = cooldown(args.scale_in_cooldown_seconds)
              /\ policy.scale_out_cooldown = cooldown(args.scale_out_cooldown_seconds)

\* rules carried by listener l, as indexes into rules
RulesOn(l) == {r \in DOMAIN rules : rules[r].listener = l}

\* the load balancer tries the rules of a listener in ascending priority
EvaluatedBefore(r1, r2) == rules[r1].priority < rules[r2].priority

Attached == {service.target_groups[i] : i \in DOMAIN service.target_groups}

\* C28: every target group that a listener rule forwards to has the service
\* attached to it, and the service is attached to no target group other than
\* the values of container_port_to_target_group; in a completed graph the
\* service is attached to exactly those.
C28_ForwardTargetsAttached ==
    /\ \A r \in DOMAIN rules :
          service.created /\ rules[r].target_group \in Attached
    /\ Attached \subseteq
          {DictGet(container_port_to_target_group, port) :
               port \in DictKeys(container_port_to_target_group)}
    /\ Attached \subseteq DOMAIN target_groups
    /\ (pc = "done" =>
           Attached = {DictGet(container_port_to_target_group, port) :
                           port \in DictKeys(container_port_to_target_group)})

C28_Witness ==
    /\ pc = "done"
    /\ Len(rules) = 1
    /\ rules[1].action = "forward"
    /\ rules[1].target_group \in Attached
    /\ Attached = {1}
    /\ DictKeys(container_port_to_target_group) # {}

\* C29: the health-check port bound to a target group is the container_port
\* of some PortMapping of the list, and all target groups are bound to the
\* same port, the resolved health_check_port.
C29_HealthCheckPortIsContainerPort ==
    \A t \in DOMAIN target_groups :
        health_check_configured(target_groups[t]) =>
            /\ target_groups[t].health_check_port = str(health_check_port)
            /\ \E i \in DOMAIN Mappings :
                  target_groups[t].health_check_port = str(Mappings[i].container_port)

\* C30: the container definition lists every container_port of the mapping
\* list exactly once among its port mappings, and lists no other port, also
\* when several mappings share a container_port.
C30_ContainerPortsExposedOnce ==
    task_definition.created =>
        /\ \A i \in DOMAIN Mappings :
              Count(task_definition.port_mappings, Mappings[i].container_port) = 1
        /\ \A k \in DOMAIN task_definition.port_mappings :
              \E i \in DOMAIN Mappings :
                  task_definition.port_mappings[k] = Mappings[i].container_port

====
